---- MODULE Spec2Model ----
(***************************************************************************)
(* The identity graph of relation_server: the Proof edge and its           *)
(* check-then-insert connect (src/graph/edge/proof.rs), the Keybase        *)
(* fetcher that materializes upstream proofs into the graph                *)
(* (src/upstream/keybase/mod.rs) and the GraphQL lookup of a Proof by uuid *)
(* (src/controller/graphql/proof.rs), run by concurrent tasks against one  *)
(* shared store.                                                           *)
(***************************************************************************)
EXTENDS Integers, Sequences, FiniteSets, TLC

\* Number of operations (fetch, connect, proof query) started in one run
\* of concurrent tasks, and in one run of operations one after the other.
MaxConcOps == 2
MaxSeqOps == 3
\* Last value of the wall clock read by naive_now().
MaxTime == 2

\* The asynchronous tasks that run operations against the shared store.
Tasks == {"t1", "t2"}

VARIABLES
    now,        \* the last value read from the wall clock
    started,    \* number of operations started so far
    vertices,   \* the Identities collection of the store
    edges,      \* the Proofs collection of the store
    pc,         \* per task: the await point the task is suspended at
    loc,        \* per task: the local variables of the running operation
    returned,   \* per task: the value the last operation returned
    latest,     \* history: per (platform, identity), the last create_or_update
    before      \* history: per task, the store when its fetch was called,
                \* recorded where fetches are run again after an abort

vars == <<now, started, vertices, edges, pc, loc, returned, latest, before>>

-----------------------------------------------------------------------------
\* Option<T>

None == <<>>
Some(x) == <<x>>
is_some(o) == o # <<>>
unwrap(o) == o[1]

-----------------------------------------------------------------------------
\* Upstream responses (KeybaseResponse / ErrorResponse)

ProofItem(proof_type, nametag, proof_id) ==
    [proof_type |-> proof_type, nametag |-> nametag, proof_id |-> proof_id]

PersonInfo(id, username, all) ==
    [id |-> id, basics |-> [username |-> username], proofs_summary |-> [all |-> all]]

KeybaseResponse(code, name, them) ==
    [http |-> 200, body |-> [status |-> [code |-> code, name |-> name], them |-> them]]

ErrorResponse(http, message) ==
    [http |-> http, body |-> [message |-> message]]

RespHttpError == ErrorResponse(404, "not found")
RespStatusError == KeybaseResponse(205, "NOT_FOUND", <<>>)
RespNoSubject == KeybaseResponse(0, "OK", <<>>)
RespZeroLinks == KeybaseResponse(0, "OK", <<PersonInfo("id_alice", "alice", <<>>)>>)
RespOne ==
    KeybaseResponse(0, "OK",
        <<PersonInfo("id_alice", "alice", <<ProofItem("twitter", "alice_tw", "p1")>>)>>)
RespMixed ==
    KeybaseResponse(0, "OK",
        <<PersonInfo("id_alice", "Alice",
            <<ProofItem("twitter", "alice_tw", "p1"),
              ProofItem("dns", "alice.io", "p2"),
              ProofItem("twitter", "alice_tw", "p3")>>)>>)

Responses ==
    {RespHttpError, RespStatusError, RespNoSubject, RespZeroLinks, RespOne, RespMixed}

\* StatusCode::is_success
is_success(http) == http >= 200 /\ http < 300

\* Platform::from_str: the closed enumeration's variant, or an error.
PlatformNames == [twitter |-> "Twitter", github |-> "Github", keybase |-> "Keybase"]
from_str(s) ==
    IF s \in DOMAIN PlatformNames
    THEN [is_err |-> FALSE, val |-> PlatformNames[s]]
    ELSE [is_err |-> TRUE, val |-> "ParseError"]

-----------------------------------------------------------------------------
\* Uuid

\* Uuid::new_v4 called by operation number opno, at item i, for the
\* role-th value built there: a value no other call returns.
new_v4(opno, i, role) == <<opno, i, role>>

\* Uuid::to_string (the hyphenated text form)
to_string(uuid) == ToString(uuid)

\* The Uuid values.
Uuids == {new_v4(opno, i, role) : opno \in 0..(MaxConcOps + MaxSeqOps), i \in 0..3, role \in 1..3}

\* Uuid::parse_str: the uuid a text denotes, or an error.
parse_str(s) ==
    IF \E u \in Uuids : to_string(u) = s
    THEN [is_err |-> FALSE, val |-> CHOOSE u \in Uuids : to_string(u) = s]
    ELSE [is_err |-> TRUE, val |-> "UuidError"]

-----------------------------------------------------------------------------
\* The graph store

\* The Identity vertex stored for an external key, if any.
stored(V, platform, identity) ==
    {v \in V : v.platform = platform /\ v.identity = identity}

\* create_or_update as a plain insert: the external key is not resolved.
create_or_update_insert(V, idn) ==
    V \cup {[id |-> Cardinality(V) + 1,
             uuid |-> idn.uuid,
             platform |-> idn.platform,
             identity |-> idn.identity,
             created_at |-> idn.created_at,
             display_name |-> idn.display_name,
             added_at |-> idn.added_at,
             avatar_url |-> idn.avatar_url,
             profile_url |-> idn.profile_url,
             updated_at |-> idn.updated_at]}

\* Vertex::create_or_update for Identity: resolve (platform, identity) to
\* the existing record and refresh its mutable fields, or insert a record.
create_or_update(V, idn) ==
    IF stored(V, idn.platform, idn.identity) = {}
    THEN V \cup {[id |-> Cardinality(V) + 1,
                  uuid |-> idn.uuid,
                  platform |-> idn.platform,
                  identity |-> idn.identity,
                  created_at |-> idn.created_at,
                  display_name |-> idn.display_name,
                  added_at |-> idn.added_at,
                  avatar_url |-> idn.avatar_url,
                  profile_url |-> idn.profile_url,
                  updated_at |-> idn.updated_at]}
    ELSE {IF v.platform = idn.platform /\ v.identity = idn.identity
          THEN [v EXCEPT !.display_name = idn.display_name,
                         !.avatar_url = idn.avatar_url,
                         !.profile_url = idn.profile_url,
                         !.updated_at = idn.updated_at]
          ELSE v : v \in V}

\* The record create_or_update returns: its id() is the document id.
record_id_of(V, idn) ==
    (CHOOSE v \in V : v.platform = idn.platform /\ v.identity = idn.identity).id

\* The filter without the comparison of source.
from_to_filter_no_source(e, from, to, source, record_id) ==
    /\ e.from = from
    /\ e.to = to
    /\ (is_some(record_id) => e.record_id = record_id)

\* The filter matching an edge between the two records in either direction.
from_to_filter_undirected(e, from, to, source, record_id) ==
    /\ {e.from, e.to} = {from, to}
    /\ e.source = source
    /\ (is_some(record_id) => e.record_id = record_id)

\* The filter comparing record_id whether or not the caller's is present.
from_to_filter_strict(e, from, to, source, record_id) ==
    /\ e.from = from
    /\ e.to = to
    /\ e.source = source
    /\ e.record_id = record_id


\* The filter of Proof::find_by_from_to: _from, _to and source always,
\* record_id only when the caller's record_id is present.
from_to_filter(e, from, to, source, record_id) ==
    /\ e.from = from
    /\ e.to = to
    /\ e.source = source
    /\ (is_some(record_id) => e.record_id = record_id)

\* Proof::find_by_from_to: the possible return values. The query states no
\* order, so result.first() may be any of the matching edges.
find_by_from_to(E, from, to, source, record_id) ==
    LET result == {e \in E : from_to_filter(e, from, to, source, record_id)}
    IN  IF Cardinality(result) = 0 THEN {None} ELSE {Some(e) : e \in result}

\* Proof::find_by_uuid: the possible return values.
find_by_uuid(E, uuid) ==
    LET result == {e \in E : e.uuid = uuid}
    IN  IF Cardinality(result) = 0 THEN {None} ELSE {Some(e) : e \in result}

\* link giving the edge document a uuid of its own instead of the Proof's.
link_own_uuid(E, from, to, pf) ==
    [id |-> Cardinality(E) + 1,
     from |-> from,
     to |-> to,
     uuid |-> <<0, Cardinality(E) + 1, 3>>,
     source |-> pf.source,
     record_id |-> pf.record_id,
     created_at |-> pf.created_at,
     last_fetched_at |-> pf.last_fetched_at]

\* DatabaseRecord::link(from, to, db, proof): the edge document created.
link(E, from, to, pf) ==
    [id |-> Cardinality(E) + 1,
     from |-> from,
     to |-> to,
     uuid |-> pf.uuid,
     source |-> pf.source,
     record_id |-> pf.record_id,
     created_at |-> pf.created_at,
     last_fetched_at |-> pf.last_fetched_at]

-----------------------------------------------------------------------------
\* Results and task-local state

Ok(v) == [kind |-> "Ok", val |-> v]
Err(e) == [kind |-> "Err", val |-> e]
Pending == [kind |-> "Pending", val |-> <<>>]

\* Error::General(message, status)
General(message, status) == <<"General", message, status>>
\* Error::NoResult
NoResult == <<"NoResult">>
\* Error::UuidError (from uuid::Error through `?`)
UuidError == <<"UuidError">>

NoLoc ==
    [op |-> "none", opno |-> 0, resp |-> None, items |-> <<>>, idx |-> 0,
     user_id |-> "", user_name |-> "", from |-> None, to |-> None,
     from_record |-> 0, to_record |-> 0, pf |-> None, res |-> <<>>,
     uuid |-> None, upserts |-> 0, inserts |-> 0, links |-> 0, queries |-> 0]

Idle(p) == pc[p] \in {"idle", "done"}

Init ==
    /\ now = 1
    /\ started = 0
    /\ vertices = {}
    /\ edges = {}
    /\ pc = [p \in Tasks |-> "idle"]
    /\ loc = [p \in Tasks |-> NoLoc]
    /\ returned = [p \in Tasks |-> Pending]
    /\ latest = {}
    /\ before = [p \in Tasks |-> None]

\* util::naive_now: the values a read of the wall clock may return, none
\* earlier than the last value read.
naive_now == now..MaxTime

-----------------------------------------------------------------------------
\* Keybase::fetch

\* The Identity of the subject being looked up (mod.rs, `from`).
from_identity(l, time) ==
    [uuid |-> Some(new_v4(l.opno, l.idx, 1)),
     platform |-> "Keybase",
     identity |-> l.user_id,
     created_at |-> None,
     display_name |-> l.user_name,
     added_at |-> time,
     avatar_url |-> None,
     profile_url |-> None,
     updated_at |-> time]

\* The Identity of the linked account (mod.rs, `to`).
to_identity(l, p, time) ==
    [uuid |-> Some(new_v4(l.opno, l.idx, 2)),
     platform |-> from_str(p.proof_type).val,
     identity |-> p.nametag,
     created_at |-> None,
     display_name |-> p.nametag,
     added_at |-> time,
     avatar_url |-> None,
     profile_url |-> None,
     updated_at |-> time]

\* The Proof built for an item (mod.rs, `pf`).
item_proof(l, p, time) ==
    [uuid |-> new_v4(l.opno, l.idx, 3),
     source |-> "Keybase",
     record_id |-> Some(p.proof_id),
     created_at |-> Some(time),
     last_fetched_at |-> time]

\* The Connection pushed for an item.
Connection(l) == [from |-> unwrap(l.from), to |-> unwrap(l.to), proof |-> unwrap(l.pf)]

\* fetch returns r.
fetch_return(t, l, r) ==
    /\ pc' = [pc EXCEPT ![t] = "done"]
    /\ loc' = [loc EXCEPT ![t] = l]
    /\ returned' = [returned EXCEPT ![t] = r]

\* The for loop moves to the next item, or the loop ends and fetch
\* returns Ok(res).
next_item(t, l) ==
    LET l2 == [l EXCEPT !.items = Tail(l.items), !.idx = l.idx + 1,
                        !.from = None, !.to = None, !.pf = None,
                        !.from_record = 0, !.to_record = 0]
    IN  IF l2.items = <<>>
        THEN fetch_return(t, l2, Ok(l2.res))
        ELSE /\ pc' = [pc EXCEPT ![t] = "from"]
             /\ loc' = [loc EXCEPT ![t] = l2]
             /\ UNCHANGED returned

\* The head of fetch answering an empty `them` with no links instead of
\* Error::NoResult.
lookup_no_subject_ok(resp) ==
    IF ~is_success(resp.http)
    THEN [done |-> TRUE,
          ret |-> Err(General("Keybase Result Get Error: " \o resp.body.message,
                              resp.http))]
    ELSE IF resp.body.status.code # 0
    THEN [done |-> TRUE,
          ret |-> Err(General("Keybase Result Get Error: " \o resp.body.status.name,
                              resp.http))]
    ELSE IF resp.body.them = <<>>
    THEN [done |-> TRUE, ret |-> Ok(<<>>)]
    ELSE [done |-> FALSE, person_info |-> resp.body.them[Len(resp.body.them)]]

\* The head of fetch without the check of the embedded status code.
lookup_ignores_code(resp) ==
    IF ~is_success(resp.http)
    THEN [done |-> TRUE,
          ret |-> Err(General("Keybase Result Get Error: " \o resp.body.message,
                              resp.http))]
    ELSE IF resp.body.them = <<>>
    THEN [done |-> TRUE, ret |-> Err(NoResult)]
    ELSE [done |-> FALSE, person_info |-> resp.body.them[Len(resp.body.them)]]

\* The head of fetch, up to the subject: the HTTP status, the embedded
\* status code and them.pop() either end the call with an error or give
\* the PersonInfo to work on.
lookup(resp) ==
    IF ~is_success(resp.http)
    THEN [done |-> TRUE,
          ret |-> Err(General("Keybase Result Get Error: " \o resp.body.message,
                              resp.http))]
    ELSE IF resp.body.status.code # 0
    THEN [done |-> TRUE,
          ret |-> Err(General("Keybase Result Get Error: " \o resp.body.status.name,
                              resp.http))]
    ELSE IF resp.body.them = <<>>
    THEN [done |-> TRUE, ret |-> Err(NoResult)]
    ELSE [done |-> FALSE, person_info |-> resp.body.them[Len(resp.body.them)]]

\* fetch is called and the upstream answers resp.
fetch(t, go, resp) ==
    /\ Idle(t)
    /\ go
    /\ started' = started + 1
    /\ LET l == [NoLoc EXCEPT !.op = "fetch", !.opno = started + 1, !.resp = Some(resp)]
           head == lookup(resp)
       IN  IF head.done
           THEN fetch_return(t, l, head.ret)
           ELSE LET l2 == [l EXCEPT !.user_id = head.person_info.id,
                                    !.user_name = head.person_info.basics.username,
                                    !.items = head.person_info.proofs_summary.all,
                                    !.idx = 1]
                IN  IF l2.items = <<>>
                    THEN fetch_return(t, l2, Ok(l2.res))
                    ELSE /\ pc' = [pc EXCEPT ![t] = "from"]
                         /\ loc' = [loc EXCEPT ![t] = l2]
                         /\ returned' = [returned EXCEPT ![t] = Pending]
    /\ UNCHANGED <<now, vertices, edges, latest>>

\* History of create_or_update: the call for idn is now the latest of its key.
record_latest(idn) ==
    {c \in latest : ~(c.platform = idn.platform /\ c.identity = idn.identity)}
        \cup {[platform |-> idn.platform, identity |-> idn.identity,
               display_name |-> idn.display_name, updated_at |-> idn.updated_at]}

\* One item begins: `from` is built and upserted.
fetch_from(t, time) ==
    /\ pc[t] = "from"
    /\ now' = time
    /\ LET l == loc[t]
           from == from_identity(l, time)
           V2 == create_or_update(vertices, from)
       IN  /\ vertices' = V2
           /\ latest' = record_latest(from)
           /\ loc' = [loc EXCEPT ![t] =
                        [l EXCEPT !.from = Some(from),
                                  !.from_record = record_id_of(V2, from),
                                  !.upserts = l.upserts + 1,
                                  !.inserts = l.inserts + Cardinality(V2) - Cardinality(vertices)]]
           /\ pc' = [pc EXCEPT ![t] = "to"]
    /\ UNCHANGED <<started, edges, returned, before>>

\* An item whose proof_type is not a Platform fails the fetch.
fetch_skip_fails(t) ==
    /\ pc[t] = "to"
    /\ from_str(Head(loc[t].items).proof_type).is_err
    /\ fetch_return(t, loc[t], Err(<<"ParamError">>))
    /\ UNCHANGED <<now, started, vertices, edges, latest, before>>

\* The item's proof_type is not a Platform: continue.
fetch_skip(t) ==
    /\ pc[t] = "to"
    /\ from_str(Head(loc[t].items).proof_type).is_err
    /\ next_item(t, loc[t])
    /\ UNCHANGED <<now, started, vertices, edges, latest, before>>

\* fetch going on to connect with a record for `to` that it has not
\* upserted.
fetch_to_no_upsert(t, time) ==
    /\ pc[t] = "to"
    /\ now' = time
    /\ ~from_str(Head(loc[t].items).proof_type).is_err
    /\ loc' = [loc EXCEPT ![t] =
                 [loc[t] EXCEPT !.to = Some(to_identity(loc[t], Head(loc[t].items), time)),
                                !.to_record = Cardinality(vertices) + 1]]
    /\ pc' = [pc EXCEPT ![t] = "connect"]
    /\ UNCHANGED <<started, vertices, edges, returned, latest, before>>


\* `to` is built and upserted.
fetch_to(t, time) ==
    /\ pc[t] = "to"
    /\ now' = time
    /\ ~from_str(Head(loc[t].items).proof_type).is_err
    /\ LET l == loc[t]
           to == to_identity(l, Head(l.items), time)
           V2 == create_or_update(vertices, to)
       IN  /\ vertices' = V2
           /\ latest' = record_latest(to)
           /\ loc' = [loc EXCEPT ![t] =
                        [l EXCEPT !.to = Some(to),
                                  !.to_record = record_id_of(V2, to),
                                  !.upserts = l.upserts + 1,
                                  !.inserts = l.inserts + Cardinality(V2) - Cardinality(vertices)]]
           /\ pc' = [pc EXCEPT ![t] = "connect"]
    /\ UNCHANGED <<started, edges, returned, before>>

-----------------------------------------------------------------------------
\* Proof::connect

\* connect returns the record e. fetch drops it and pushes a Connection
\* built from its own `from`, `to` and `pf`; a direct caller receives it.
connect_return(t, l, e) ==
    IF l.op = "fetch"
    THEN next_item(t, [l EXCEPT !.res = Append(l.res, Connection(l))])
    ELSE /\ pc' = [pc EXCEPT ![t] = "done"]
         /\ loc' = [loc EXCEPT ![t] = l]
         /\ returned' = [returned EXCEPT ![t] = Ok(e)]

\* connect without its lookup: it goes on to insert.
connect_no_lookup(t, l) ==
    /\ pc' = [pc EXCEPT ![t] = "link"]
    /\ loc' = [loc EXCEPT ![t] = l]
    /\ IF l.op = "fetch"
       THEN UNCHANGED returned
       ELSE returned' = [returned EXCEPT ![t] = Pending]


\* The lookup of connect: an edge found is returned as it is stored; when
\* none is found connect goes on to insert.
connect_find(t, l) ==
    \E found \in find_by_from_to(edges, l.from_record, l.to_record,
                                 unwrap(l.pf).source, unwrap(l.pf).record_id) :
        LET l2 == [l EXCEPT !.queries = l.queries + 1]
        IN  IF is_some(found)
            THEN connect_return(t, l2, unwrap(found))
            ELSE /\ pc' = [pc EXCEPT ![t] = "link"]
                 /\ loc' = [loc EXCEPT ![t] = l2]
                 /\ IF l.op = "fetch"
                    THEN UNCHANGED returned
                    ELSE returned' = [returned EXCEPT ![t] = Pending]

\* fetch calling a connect that refreshes last_fetched_at of the edge it
\* finds.
fetch_connect_refresh(t, time) ==
    /\ pc[t] = "connect"
    /\ now' = time
    /\ LET pf == item_proof(loc[t], Head(loc[t].items), time)
           l == [loc[t] EXCEPT !.pf = Some(pf), !.queries = loc[t].queries + 1]
       IN  \E found \in find_by_from_to(edges, l.from_record, l.to_record,
                                        pf.source, pf.record_id) :
               IF is_some(found)
               THEN LET e == [unwrap(found) EXCEPT !.last_fetched_at = pf.last_fetched_at]
                    IN  /\ edges' = (edges \ {unwrap(found)}) \cup {e}
                        /\ connect_return(t, l, e)
               ELSE /\ pc' = [pc EXCEPT ![t] = "link"]
                    /\ loc' = [loc EXCEPT ![t] = l]
                    /\ UNCHANGED <<edges, returned>>
    /\ UNCHANGED <<started, vertices, latest, before>>


\* fetch builds `pf` for the item and calls connect with the two records.
fetch_connect(t, time) ==
    /\ pc[t] = "connect"
    /\ now' = time
    /\ connect_find(t, [loc[t] EXCEPT
                          !.pf = Some(item_proof(loc[t], Head(loc[t].items), time))])
    /\ UNCHANGED <<started, vertices, edges, latest, before>>

\* The sources and record ids of the Proofs that direct callers connect.
Sources == {"Keybase", "SybilList"}
RecordIds == {None, Some("p1")}

\* connect called directly (as the test does) with a new Proof value
\* between two stored Identity records.
connect(t, go, time, from, to, source, record_id) ==
    /\ Idle(t)
    /\ go
    /\ started' = started + 1
    /\ now' = time
    /\ connect_find(t, [NoLoc EXCEPT !.op = "connect",
                                     !.opno = started + 1,
                                     !.from_record = from,
                                     !.to_record = to,
                                     !.pf = Some([uuid |-> new_v4(started + 1, 0, 3),
                                                  source |-> source,
                                                  record_id |-> record_id,
                                                  created_at |-> None,
                                                  last_fetched_at |-> time])])
    /\ UNCHANGED <<vertices, edges, latest, before>>

\* The insert of connect: DatabaseRecord::link with a clone of the Proof.
connect_link(t) ==
    /\ pc[t] = "link"
    /\ LET l == loc[t]
           e == link(edges, l.from_record, l.to_record, unwrap(l.pf))
       IN  /\ edges' = edges \cup {e}
           /\ connect_return(t, [l EXCEPT !.links = l.links + 1], e)
    /\ UNCHANGED <<now, started, vertices, latest, before>>

-----------------------------------------------------------------------------
\* Aborted fetches

\* The error a failing store operation gives, converted by `?`.
StoreError == <<"StoreError">>

\* A fetch whose future was dropped returns nothing.
Cancelled == [kind |-> "Cancelled", val |-> <<>>]

\* The store operation task t is about to run for an item: the upsert of
\* `from`, the upsert of `to` of a recognized item, the lookup of connect
\* or its insert.
AtStoreOp(t) ==
    /\ loc[t].op = "fetch"
    /\ \/ pc[t] \in {"from", "connect", "link"}
       \/ pc[t] = "to" /\ ~from_str(Head(loc[t].items).proof_type).is_err

\* A failing store operation that fetch answers by going on to the next
\* item.
store_error_continue(t) ==
    /\ AtStoreOp(t)
    /\ next_item(t, loc[t])
    /\ UNCHANGED <<now, started, vertices, edges, latest, before>>

\* The store operation fails and writes nothing: `?` returns the error
\* from fetch, with the items not yet reached left unprocessed.
store_error(t) ==
    /\ AtStoreOp(t)
    /\ fetch_return(t, loc[t], Err(StoreError))
    /\ UNCHANGED <<now, started, vertices, edges, latest, before>>

\* The future of fetch is dropped at an await point, between two of its
\* store operations.
cancel(t) ==
    /\ loc[t].op = "fetch"
    /\ pc[t] \in {"from", "to", "connect", "link"}
    /\ fetch_return(t, loc[t], Cancelled)
    /\ UNCHANGED <<now, started, vertices, edges, latest, before>>

\* The for loop of fetch over the items of l, run without interruption and
\* alone on the store <<V, E>>: the store it leaves.
RECURSIVE run_items(_, _, _)
run_items(V, E, l) ==
    IF l.items = <<>>
    THEN [vertices |-> V, edges |-> E]
    ELSE LET p == Head(l.items)
             rest == [l EXCEPT !.items = Tail(l.items), !.idx = l.idx + 1]
             from == from_identity(l, MaxTime)
             V1 == create_or_update(V, from)
         IN  IF from_str(p.proof_type).is_err
             THEN run_items(V1, E, rest)
             ELSE LET to == to_identity(l, p, MaxTime)
                      V2 == create_or_update(V1, to)
                      from_record == record_id_of(V2, from)
                      to_record == record_id_of(V2, to)
                      pf == item_proof(l, p, MaxTime)
                      found == find_by_from_to(E, from_record, to_record,
                                               pf.source, pf.record_id)
                  IN  IF found = {None}
                      THEN run_items(V2, E \cup {link(E, from_record, to_record, pf)}, rest)
                      ELSE run_items(V2, E, rest)

\* One uninterrupted fetch answered with resp, alone on the store <<V, E>>:
\* the store it leaves.
uninterrupted(V, E, resp) ==
    LET head == lookup(resp)
    IN  IF head.done
        THEN [vertices |-> V, edges |-> E]
        ELSE run_items(V, E, [NoLoc EXCEPT !.op = "fetch",
                                           !.user_id = head.person_info.id,
                                           !.user_name = head.person_info.basics.username,
                                           !.items = head.person_info.proofs_summary.all,
                                           !.idx = 1])

-----------------------------------------------------------------------------
\* ProofQuery::proof

\* The uuid arguments of the query: absent, a text that is no uuid, the
\* text of a stored edge's uuid, the text of a uuid no edge carries.
UnusedUuid == new_v4(0, 0, 3)
QueryArgs ==
    {None, Some("not-a-uuid")}
        \cup {Some(to_string(u)) : u \in {e.uuid : e \in edges} \cup {UnusedUuid}}

proof(t, go, uuid) ==
    /\ Idle(t)
    /\ go
    /\ started' = started + 1
    /\ pc' = [pc EXCEPT ![t] = "done"]
    /\ LET l == [NoLoc EXCEPT !.op = "proof", !.opno = started + 1, !.uuid = uuid]
       IN  IF ~is_some(uuid)
           THEN /\ returned' = [returned EXCEPT ![t] = Ok(None)]
                /\ loc' = [loc EXCEPT ![t] = l]
           ELSE IF parse_str(unwrap(uuid)).is_err
           THEN /\ returned' = [returned EXCEPT ![t] = Err(UuidError)]
                /\ loc' = [loc EXCEPT ![t] = l]
           ELSE \E found \in find_by_uuid(edges, parse_str(unwrap(uuid)).val) :
                /\ returned' = [returned EXCEPT ![t] = Ok(found)]
                /\ loc' = [loc EXCEPT ![t] = [l EXCEPT !.queries = 1]]
    /\ UNCHANGED <<now, vertices, edges, latest, before>>

-----------------------------------------------------------------------------------------------------------------------------------------------------
\* Specifications

VertexIds == {v.id : v \in vertices}

\* Whether task t may start an operation when tasks run concurrently: the
\* task that starts the first operation is called t1.
may_start(t) == started < MaxConcOps /\ (started = 0 => t = "t1")

\* Concurrent fetches: the tasks interleave at their await points.
Next ==
    \/ \E t \in Tasks, resp \in Responses :
          fetch(t, may_start(t), resp) /\ UNCHANGED before
    \/ \E t \in Tasks, time \in naive_now : fetch_from(t, time)
    \/ \E t \in Tasks : fetch_skip(t)
    \/ \E t \in Tasks, time \in naive_now : fetch_to(t, time)
    \/ \E t \in Tasks, time \in naive_now : fetch_connect(t, time)
    \/ \E t \in Tasks : connect_link(t)

Spec == Init /\ [][Next]_vars

\* The task that runs the n-th operation when operations run one after
\* the other: the two tasks take turns, so that the last two operations are
\* the ones whose locals and return values the state holds.
turn(n) == IF n % 2 = 1 THEN "t1" ELSE "t2"

\* Whether task t may start an operation when operations run one after
\* the other: no task is inside an operation, and it is t's turn.
may_start_seq(t) ==
    /\ \A q \in Tasks : Idle(q)
    /\ started < MaxSeqOps
    /\ t = turn(started + 1)

\* Fetches, direct calls of connect and proof queries, one operation at a
\* time.
SeqNext ==
    \/ \E t \in Tasks, resp \in Responses :
          fetch(t, may_start_seq(t), resp) /\ UNCHANGED before
    \/ \E t \in Tasks, time \in naive_now : fetch_from(t, time)
    \/ \E t \in Tasks : fetch_skip(t)
    \/ \E t \in Tasks, time \in naive_now : fetch_to(t, time)
    \/ \E t \in Tasks, time \in naive_now : fetch_connect(t, time)
    \/ \E t \in Tasks : connect_link(t)
    \/ \E t \in Tasks : \E from \in VertexIds : \E to \in VertexIds \ {from} :
          \E time \in naive_now, source \in Sources, record_id \in RecordIds :
              connect(t, may_start_seq(t), time, from, to, source, record_id)
    \/ \E t \in Tasks, uuid \in QueryArgs : proof(t, may_start_seq(t), uuid)

SeqSpec == Init /\ [][SeqNext]_vars

\* The store when task t calls fetch.
record_before(t) ==
    before' = [before EXCEPT ![t] = Some([vertices |-> vertices, edges |-> edges])]

\* Fetches one at a time, any of which may be aborted by a failing store
\* operation or dropped at an await point, and may then be run again.
RerunNext ==
    \/ \E t \in Tasks, resp \in Responses :
          fetch(t, may_start_seq(t), resp) /\ record_before(t)
    \/ \E t \in Tasks, time \in naive_now : fetch_from(t, time)
    \/ \E t \in Tasks : fetch_skip(t)
    \/ \E t \in Tasks, time \in naive_now : fetch_to(t, time)
    \/ \E t \in Tasks, time \in naive_now : fetch_connect(t, time)
    \/ \E t \in Tasks : connect_link(t)
    \/ \E t \in Tasks : store_error(t)
    \/ \E t \in Tasks : cancel(t)

RerunSpec == Init /\ [][RerunNext]_vars

\* Concurrent fetches, any of which may be aborted by a failing store
\* operation or dropped at an await point. The clock stands still here:
\* the timestamps play no part in what an abort leaves in the store.
FaultNext ==
    \/ \E t \in Tasks, resp \in Responses :
          fetch(t, may_start(t), resp) /\ UNCHANGED before
    \/ \E t \in Tasks, time \in {now} : fetch_from(t, time)
    \/ \E t \in Tasks : fetch_skip(t)
    \/ \E t \in Tasks, time \in {now} : fetch_to(t, time)
    \/ \E t \in Tasks, time \in {now} : fetch_connect(t, time)
    \/ \E t \in Tasks : connect_link(t)
    \/ \E t \in Tasks : store_error(t)
    \/ \E t \in Tasks : cancel(t)

FaultSpec == Init /\ [][FaultNext]_vars

-----------------------------------------------------------------------------
\* Properties

\* Task t has returned from an operation op.
Done(t, op) == pc[t] = "done" /\ loc[t].op = op

\* When operations run one after the other: a ran an operation, b ran the
\* next one, and nothing has started since.
Consecutive(a, b) ==
    /\ pc[a] = "done"
    /\ pc[b] = "done"
    /\ loc[b].opno = loc[a].opno + 1
    /\ loc[b].opno = started

\* The stored edges of a dedup tuple.
EdgesOf(from, to, source, record_id) ==
    {e \in edges : /\ e.from = from
                   /\ e.to = to
                   /\ e.source = source
                   /\ e.record_id = record_id}

\* a and b called connect for the same (from, to, source, record_id).
SameTuple(a, b) ==
    /\ loc[a].op = "connect"
    /\ loc[b].op = "connect"
    /\ loc[a].from_record = loc[b].from_record
    /\ loc[a].to_record = loc[b].to_record
    /\ unwrap(loc[a].pf).source = unwrap(loc[b].pf).source
    /\ unwrap(loc[a].pf).record_id = unwrap(loc[b].pf).record_id

\* After the two calls of a and b: one edge for the tuple, the second call
\* returned the uuid the first returned, which is not its own Proof's uuid.
OneEdgeSameUuid(a, b) ==
    /\ Cardinality(EdgesOf(loc[b].from_record, loc[b].to_record,
                           unwrap(loc[b].pf).source, unwrap(loc[b].pf).record_id)) = 1
    /\ returned[b].val.uuid = returned[a].val.uuid
    /\ returned[b].val.uuid # unwrap(loc[b].pf).uuid

\* C1 as stated: connect called twice in a row for the same (from, to,
\* source, record_id), whatever the record_id, leaves exactly one edge for
\* the tuple, and the second call returns the uuid the first call returned.
ConnectTwice ==
    \A a \in Tasks, b \in Tasks :
        (Consecutive(a, b) /\ SameTuple(a, b)) => OneEdgeSameUuid(a, b)

\* The record_id of b's call is present, or every stored edge between its
\* endpoints from its source has no record_id either.
KeyedLookup(b) ==
    \/ is_some(unwrap(loc[b].pf).record_id)
    \/ \A e \in edges :
          (/\ e.from = loc[b].from_record
           /\ e.to = loc[b].to_record
           /\ e.source = unwrap(loc[b].pf).source) => ~is_some(e.record_id)

\* C1 amended: connect called twice in a row for the same (from, to, source,
\* record_id), where the record_id is present or no edge between from and to
\* from that source carries a record_id, leaves exactly one edge for the
\* tuple, and the second call returns the uuid the first call returned, not
\* the uuid of its own Proof value.
ConnectTwiceKeyed ==
    \A a \in Tasks, b \in Tasks :
        (Consecutive(a, b) /\ SameTuple(a, b) /\ KeyedLookup(b))
            => OneEdgeSameUuid(a, b)

\* C1 witness: two calls in a row for one tuple, the first of which inserted.
ConnectTwiceKeyedReached ==
    \E a \in Tasks, b \in Tasks :
        /\ Consecutive(a, b)
        /\ SameTuple(a, b)
        /\ KeyedLookup(b)
        /\ loc[a].links = 1
        /\ loc[b].links = 0

\* C2 as stated: in every state reached by concurrent fetches, at most one
\* Proof edge is stored per (from, to, source, record_id).
DedupInvariant ==
    \A e1 \in edges, e2 \in edges :
        (/\ e1.from = e2.from
         /\ e1.to = e2.to
         /\ e1.source = e2.source
         /\ e1.record_id = e2.record_id) => e1 = e2

\* b's call of connect is a's call with from and to exchanged.
Opposite(a, b) ==
    /\ loc[a].op = "connect"
    /\ loc[b].op = "connect"
    /\ loc[b].from_record = loc[a].to_record
    /\ loc[b].to_record = loc[a].from_record
    /\ unwrap(loc[a].pf).source = unwrap(loc[b].pf).source
    /\ unwrap(loc[a].pf).record_id = unwrap(loc[b].pf).record_id

\* C3: connect(from=A, to=B) followed by connect(from=B, to=A) for the same
\* (source, record_id) returns two stored edges with distinct uuids, the
\* first running A -> B and the second B -> A: the second call's lookup
\* did not match the edge of the opposite direction.
Directionality ==
    \A a \in Tasks, b \in Tasks :
        (Consecutive(a, b) /\ Opposite(a, b)) =>
            LET ea == returned[a].val
                eb == returned[b].val
            IN  /\ {ea, eb} \subseteq edges
                /\ ea.from = loc[a].from_record
                /\ ea.to = loc[a].to_record
                /\ eb.from = loc[b].from_record
                /\ eb.to = loc[b].to_record
                /\ ea.uuid # eb.uuid

\* C3 witness: the two opposite calls in a row, each of which inserted.
DirectionalityReached ==
    \E a \in Tasks, b \in Tasks :
        /\ Consecutive(a, b)
        /\ Opposite(a, b)
        /\ loc[a].links = 1
        /\ loc[b].links = 1

\* C4 as stated: of two fetches in a row of the response of alice with one
\* proof p1 to alice_tw, the second creates no vertex and no edge and
\* returns a Connection whose Proof has the uuid of the first run's.
RepeatFetchSameUuid ==
    \A a \in Tasks, b \in Tasks :
        (/\ Consecutive(a, b)
         /\ loc[a].op = "fetch"
         /\ loc[b].op = "fetch"
         /\ loc[a].resp = Some(RespOne)
         /\ loc[b].resp = Some(RespOne)) =>
            /\ loc[b].inserts = 0
            /\ loc[b].links = 0
            /\ returned[b].val[1].proof.uuid = returned[a].val[1].proof.uuid

\* The response is a success that resolves the subject.
Resolved(resp) ==
    /\ is_success(resp.http)
    /\ resp.body.status.code = 0
    /\ resp.body.them # <<>>

\* The subject of a resolved response.
Subject(resp) == resp.body.them[Len(resp.body.them)]

Recognized(p) == ~from_str(p.proof_type).is_err

\* C5: for a successful response that resolves the subject, fetch returns
\* Ok with one Connection per item whose proof_type is a Platform, in
\* response order, and none for the other items.
SkipUnsupported ==
    \A t \in Tasks :
        (Done(t, "fetch") /\ Resolved(unwrap(loc[t].resp))) =>
            LET person == Subject(unwrap(loc[t].resp))
                items == SelectSeq(person.proofs_summary.all, Recognized)
                res == returned[t].val
            IN  /\ returned[t].kind = "Ok"
                /\ Len(res) = Len(items)
                /\ \A i \in 1..Len(items) :
                      /\ res[i].from.platform = "Keybase"
                      /\ res[i].from.identity = person.id
                      /\ res[i].to.platform = from_str(items[i].proof_type).val
                      /\ res[i].to.identity = items[i].nametag
                      /\ res[i].proof.record_id = Some(items[i].proof_id)

\* C5 witness: a fetch of the response with two recognized items around an
\* unrecognized one has returned.
SkipUnsupportedReached ==
    \E t \in Tasks :
        /\ Done(t, "fetch")
        /\ loc[t].resp = Some(RespMixed)
        /\ Len(returned[t].val) = 2

\* The return value r of a lookup is the edge connect inserted for task t.
IsInserted(t, r) ==
    /\ is_some(r)
    /\ unwrap(r).uuid = unwrap(loc[t].pf).uuid
    /\ unwrap(r).source = unwrap(loc[t].pf).source
    /\ unwrap(r).record_id = unwrap(loc[t].pf).record_id
    /\ unwrap(r).from = loc[t].from_record
    /\ unwrap(r).to = loc[t].to_record

\* C6: right after connect has inserted an edge for Proof p between from
\* and to, find_by_uuid(p.uuid) and find_by_from_to(from, to, p.source,
\* p.record_id) return that edge with p's uuid, source, record_id and the
\* endpoints; find_by_uuid of a uuid no edge carries returns None.
LookupAfterInsert ==
    \A t \in Tasks :
        (Done(t, "connect") /\ loc[t].opno = started /\ loc[t].links = 1) =>
            /\ \A r \in find_by_uuid(edges, unwrap(loc[t].pf).uuid) : IsInserted(t, r)
            /\ \A r \in find_by_from_to(edges, loc[t].from_record, loc[t].to_record,
                                        unwrap(loc[t].pf).source,
                                        unwrap(loc[t].pf).record_id) : IsInserted(t, r)
            /\ find_by_uuid(edges, UnusedUuid) = {None}

\* C6 witness: a direct call of connect has just inserted.
LookupAfterInsertReached ==
    \E t \in Tasks :
        Done(t, "connect") /\ loc[t].opno = started /\ loc[t].links = 1

\* C7 as stated: the proof query returns Ok(None), with no store lookup,
\* when its uuid argument is absent and when it does not parse as a uuid.
QueryNeverFails ==
    \A t \in Tasks :
        (/\ Done(t, "proof")
         /\ (~is_some(loc[t].uuid) \/ parse_str(unwrap(loc[t].uuid)).is_err)) =>
            /\ returned[t] = Ok(None)
            /\ loc[t].queries = 0

\* Task t calls fetch in this step.
CallsFetch(t) ==
    /\ Idle(t)
    /\ started' = started + 1
    /\ loc'[t].opno = started'
    /\ loc'[t].op = "fetch"

StoreUnchanged == vertices' = vertices /\ edges' = edges

\* The response resolves the subject and lists no proof item.
ZeroLinks(resp) == Resolved(resp) /\ Subject(resp).proofs_summary.all = <<>>

\* The response is a success that resolves no subject.
NoSubject(resp) ==
    /\ is_success(resp.http)
    /\ resp.body.status.code = 0
    /\ resp.body.them = <<>>

\* C8: a fetch answered by a resolved subject with zero proof items returns
\* Ok of the empty sequence, a fetch answered by a success with no subject
\* returns Error::NoResult, and neither changes the store.
ZeroLinksVersusNoSubject ==
    [][\A t \in Tasks :
          CallsFetch(t) =>
              LET resp == unwrap(loc'[t].resp)
              IN  /\ ZeroLinks(resp) =>
                        /\ pc'[t] = "done"
                        /\ returned'[t] = Ok(<<>>)
                        /\ StoreUnchanged
                  /\ NoSubject(resp) =>
                        /\ pc'[t] = "done"
                        /\ returned'[t] = Err(NoResult)
                        /\ StoreUnchanged]_vars

\* C8 witness: one fetch returned for zero links, another for no subject.
ZeroLinksVersusNoSubjectReached ==
    \E a \in Tasks, b \in Tasks :
        /\ Done(a, "fetch")
        /\ ZeroLinks(unwrap(loc[a].resp))
        /\ returned[a] = Ok(<<>>)
        /\ Done(b, "fetch")
        /\ NoSubject(unwrap(loc[b].resp))
        /\ returned[b] = Err(NoResult)

\* C9: a fetch answered with a non-success HTTP status, or with a success
\* whose embedded status code is not 0, returns an error carrying the
\* upstream's message (and so no Connection) and leaves the vertices and
\* the edges of the store as they were.
UpstreamFailureAborts ==
    [][\A t \in Tasks :
          CallsFetch(t) =>
              LET resp == unwrap(loc'[t].resp)
              IN  /\ ~is_success(resp.http) =>
                        /\ pc'[t] = "done"
                        /\ returned'[t] =
                              Err(General("Keybase Result Get Error: " \o resp.body.message,
                                          resp.http))
                        /\ StoreUnchanged
                  /\ (is_success(resp.http) /\ resp.body.status.code # 0) =>
                        /\ pc'[t] = "done"
                        /\ returned'[t] =
                              Err(General("Keybase Result Get Error: "
                                              \o resp.body.status.name, resp.http))
                        /\ StoreUnchanged]_vars

\* C9 witness: fetches have returned for both kinds of upstream failure.
UpstreamFailureAbortsReached ==
    \E a \in Tasks, b \in Tasks :
        /\ Done(a, "fetch")
        /\ loc[a].resp = Some(RespHttpError)
        /\ returned[a].kind = "Err"
        /\ Done(b, "fetch")
        /\ loc[b].resp = Some(RespStatusError)
        /\ returned[b].kind = "Err"

\* C10: at most one Identity vertex per (platform, identity), and its
\* display_name and updated_at are those of the latest create_or_update
\* call for the key.
VertexKeyUnique ==
    /\ \A v1 \in vertices, v2 \in vertices :
          (v1.platform = v2.platform /\ v1.identity = v2.identity) => v1 = v2
    /\ \A c \in latest :
          \E v \in vertices :
              /\ v.platform = c.platform
              /\ v.identity = c.identity
              /\ v.display_name = c.display_name
              /\ v.updated_at = c.updated_at

\* C10 witness: the vertex of the subject was created under one
\* display_name and refreshed later under another by a concurrent fetch.
VertexKeyUniqueReached ==
    /\ \E v \in vertices :
          /\ v.platform = "Keybase"
          /\ v.display_name = "Alice"
          /\ v.added_at < v.updated_at
          /\ v.uuid # Some(new_v4(1, 1, 1))
    /\ \A t \in Tasks : loc[t].upserts > 0


\* Task t calls connect directly in this step.
CallsConnect(t) ==
    /\ Idle(t)
    /\ started' = started + 1
    /\ loc'[t].opno = started'
    /\ loc'[t].op = "connect"

\* The lookup of connect, run for task t in this step (by fetch for an
\* item, or by a direct call), finds an edge.
LookupHits(t) ==
    \/ pc[t] = "connect" /\ pc'[t] \notin {"connect", "link"}
    \/ CallsConnect(t) /\ pc'[t] = "done"

\* C11: when the lookup of connect finds an edge, connect writes nothing:
\* the stored edges (each with its uuid, source, record_id, created_at,
\* last_fetched_at and endpoints) and the vertices are after the call what
\* they were before it, no insert is counted, and a direct caller receives
\* an edge that is stored, whatever the Proof it called with carries.
ConnectHitNoWrite ==
    [][\A t \in Tasks :
          LookupHits(t) =>
              /\ StoreUnchanged
              /\ loc'[t].links = IF CallsConnect(t) THEN 0 ELSE loc[t].links
              /\ CallsConnect(t) =>
                    /\ returned'[t].kind = "Ok"
                    /\ returned'[t].val \in edges
                    /\ from_to_filter(returned'[t].val, loc'[t].from_record,
                                      loc'[t].to_record, unwrap(loc'[t].pf).source,
                                      unwrap(loc'[t].pf).record_id)]_vars

\* C11 witness: a direct call of connect found an edge whose uuid and
\* last_fetched_at differ from those of the Proof it was called with.
ConnectHitNoWriteReached ==
    \E t \in Tasks :
        /\ Done(t, "connect")
        /\ loc[t].links = 0
        /\ returned[t].val \in edges
        /\ returned[t].val.uuid # unwrap(loc[t].pf).uuid
        /\ returned[t].val.last_fetched_at # unwrap(loc[t].pf).last_fetched_at


\* C12 as stated: after connect is called for a tuple that already has a
\* stored edge, the stored edge's last_fetched_at is the one carried by
\* that call: for a direct call that found an edge, and for the edge of the
\* item when a fetch of the one-item response has run again.
LastFetchedBumped ==
    \A t \in Tasks :
        /\ (Done(t, "connect") /\ loc[t].opno = started /\ loc[t].links = 0) =>
              \A e \in edges :
                  from_to_filter(e, loc[t].from_record, loc[t].to_record,
                                 unwrap(loc[t].pf).source, unwrap(loc[t].pf).record_id) =>
                      e.last_fetched_at = unwrap(loc[t].pf).last_fetched_at
        /\ (/\ Done(t, "fetch")
            /\ loc[t].opno = started
            /\ loc[t].resp = Some(RespOne)
            /\ loc[t].links = 0) =>
              \A e \in edges :
                  (/\ e.source = "Keybase"
                   /\ e.record_id = Some("p1")
                   /\ e.from = record_id_of(vertices, returned[t].val[1].from)
                   /\ e.to = record_id_of(vertices, returned[t].val[1].to)) =>
                      e.last_fetched_at = returned[t].val[1].proof.last_fetched_at


\* The number of items of the resolved response whose proof_type is a
\* Platform.
RecognizedCount(resp) == Len(SelectSeq(Subject(resp).proofs_summary.all, Recognized))

\* C13 as stated: an item whose proof_type is not a Platform causes no
\* vertex upsert and no edge upsert, so a fetch that has returned for a
\* resolved response performed twice as many vertex upserts as the response
\* has recognized items, and one lookup of connect per recognized item.
SkippedItemNoWrite ==
    \A t \in Tasks :
        (Done(t, "fetch") /\ Resolved(unwrap(loc[t].resp))) =>
            /\ loc[t].upserts = 2 * RecognizedCount(unwrap(loc[t].resp))
            /\ loc[t].queries = RecognizedCount(unwrap(loc[t].resp))
            /\ loc[t].links <= RecognizedCount(unwrap(loc[t].resp))


\* The fetch of task t was aborted: a store operation failed, or its
\* future was dropped.
Aborted(t) ==
    /\ Done(t, "fetch")
    /\ \/ returned[t].kind = "Cancelled"
       \/ returned[t].kind = "Err" /\ returned[t].val[1] = StoreError[1]

\* The vertices by external key, the edges by dedup tuple.
Keys(V) == {<<v.platform, v.identity>> : v \in V}
Tuples(E) == {<<e.from, e.to, e.source, e.record_id>> : e \in E}

\* a's fetch was aborted, b then ran the same fetch to completion, and
\* nothing else has run since a's fetch was called.
RanAgain(a, b) ==
    /\ Consecutive(a, b)
    /\ Aborted(a)
    /\ Done(b, "fetch")
    /\ loc[b].resp = loc[a].resp
    /\ returned[b].kind = "Ok"

\* C14: when a fetch was aborted at any of its await points and the same
\* fetch then ran to completion with no other writer, the store holds the
\* vertices by (platform, identity) and the edges by (from, to, source,
\* record_id) that one uninterrupted run from the store before the aborted
\* fetch leaves, each of them once.
SafeRerun ==
    \A a \in Tasks, b \in Tasks :
        RanAgain(a, b) =>
            LET once == uninterrupted(unwrap(before[a]).vertices, unwrap(before[a]).edges,
                                      unwrap(loc[a].resp))
            IN  /\ Keys(vertices) = Keys(once.vertices)
                /\ Tuples(edges) = Tuples(once.edges)
                /\ Cardinality(vertices) = Cardinality(Keys(vertices))
                /\ Cardinality(edges) = Cardinality(Tuples(edges))

\* C14 witness: a fetch of the three-item response was aborted inside its
\* third item, between the upsert of `to` and connect, after it had
\* inserted the edge of the first item; the fetch run again inserted the
\* remaining edge.
SafeRerunReached ==
    \E a \in Tasks, b \in Tasks :
        /\ RanAgain(a, b)
        /\ loc[a].resp = Some(RespMixed)
        /\ loc[a].idx = 3
        /\ loc[a].to_record # 0
        /\ loc[a].pf = None
        /\ loc[a].links = 1
        /\ loc[b].links = 1


\* Task t takes a step in this step.
Steps(t) == pc'[t] # pc[t] \/ loc'[t] # loc[t]

\* The store operations task t has performed in its operation.
StoreOps(l) == l.upserts + l.queries + l.links

\* C15: a fetch leaves a store operation of item k only by performing it
\* or by returning: when the operation fails, fetch returns the store
\* error and no Connection list, its locals stay where item k left them (no
\* later item is processed), and the vertices and edges are those written
\* before the failure.
StoreErrorAborts ==
    [][\A t \in Tasks :
          (AtStoreOp(t) /\ Steps(t) /\ StoreOps(loc'[t]) # StoreOps(loc[t]) + 1) =>
              /\ pc'[t] = "done"
              /\ returned'[t].kind \in {"Err", "Cancelled"}
              /\ returned'[t].kind = "Err" => returned'[t].val = StoreError
              /\ loc'[t] = loc[t]
              /\ StoreUnchanged]_vars

\* C15 witness: a fetch of the three-item response returned the store
\* error inside its third item, the edge of its first item being stored
\* and its Connection built.
StoreErrorAbortsReached ==
    \E t \in Tasks :
        /\ Done(t, "fetch")
        /\ returned[t].kind = "Err"
        /\ returned[t].val = StoreError
        /\ loc[t].resp = Some(RespMixed)
        /\ loc[t].idx = 3
        /\ loc[t].links = 1
        /\ Len(loc[t].res) = 1
        /\ \E e \in edges : e.uuid = loc[t].res[1].proof.uuid


\* The stored edges between two records from a source, of any record_id.
EdgesBetween(from, to, source) ==
    {e \in edges : e.from = from /\ e.to = to /\ e.source = source}

\* a and b called connect for the same (from, to, source).
SameEnds(a, b) ==
    /\ loc[a].op = "connect"
    /\ loc[b].op = "connect"
    /\ loc[a].from_record = loc[b].from_record
    /\ loc[a].to_record = loc[b].to_record
    /\ unwrap(loc[a].pf).source = unwrap(loc[b].pf).source

\* The lookups of a direct call of connect in this step: a call without
\* record_id finds an edge of the same (from, to, source) that carries one
\* and inserts nothing; a call with a record_id, when the edges of the same
\* (from, to, source) all lack one, goes on to insert; the insert adds one
\* edge.
AbsentRecordIdLookups ==
    \A t \in Tasks :
        /\ CallsConnect(t) =>
              LET pf == unwrap(loc'[t].pf)
                  F == EdgesBetween(loc'[t].from_record, loc'[t].to_record, pf.source)
              IN  /\ (pf.record_id = None /\ \E e \in F : is_some(e.record_id)) =>
                        /\ pc'[t] = "done"
                        /\ returned'[t].val \in F
                        /\ edges' = edges
                  /\ (is_some(pf.record_id) /\ F # {} /\ \A e \in F : e.record_id = None) =>
                        pc'[t] = "link"
        /\ (pc[t] = "link" /\ Steps(t)) =>
              /\ Cardinality(edges') = Cardinality(edges) + 1
              /\ loc'[t].links = loc[t].links + 1

\* After two calls of connect in a row for the same (from, to, source), the
\* first of which inserted: without record_id first and with one second,
\* the second call inserted too and two edges are stored; with a record_id
\* first and without one second, the second call inserted nothing.
OrderOfCallsDecides ==
    \A a \in Tasks, b \in Tasks :
        (Consecutive(a, b) /\ SameEnds(a, b) /\ loc[a].links = 1) =>
            LET F == EdgesBetween(loc[a].from_record, loc[a].to_record,
                                  unwrap(loc[a].pf).source)
            IN  /\ (/\ unwrap(loc[a].pf).record_id = None
                    /\ is_some(unwrap(loc[b].pf).record_id)) =>
                      /\ loc[b].links = 1
                      /\ Cardinality(F) = 2
                /\ (/\ is_some(unwrap(loc[a].pf).record_id)
                    /\ unwrap(loc[b].pf).record_id = None) =>
                      /\ loc[b].links = 0
                      /\ returned[b].val \in F
                      /\ (\A e \in F : is_some(e.record_id)) => Cardinality(F) = 1

\* C16: the lookup of connect compares record_id only when the caller's is
\* present, so a call without record_id matches an edge that carries one,
\* a call with a record_id does not match an edge without one, and the
\* number of edges stored after connecting a Proof without record_id and a
\* Proof with one depends on the order of the two calls.
AbsentRecordId == []OrderOfCallsDecides /\ [][AbsentRecordIdLookups]_vars

\* C16 witness: connect was called without record_id and then with one for
\* the same (from, to, source), and two edges are stored for it.
AbsentRecordIdReached ==
    \E a \in Tasks, b \in Tasks :
        /\ Consecutive(a, b)
        /\ SameEnds(a, b)
        /\ unwrap(loc[a].pf).record_id = None
        /\ is_some(unwrap(loc[b].pf).record_id)
        /\ loc[a].links = 1
        /\ loc[b].links = 1
        /\ Cardinality(EdgesBetween(loc[a].from_record, loc[a].to_record,
                                    unwrap(loc[a].pf).source)) = 2


\* C17 as stated: for every Connection a fetch returned, the store holds
\* an edge with the uuid of Connection.proof (find_by_uuid gives Some)
\* that runs from the vertex of Connection.from to the vertex of
\* Connection.to, on a first fetch and on every later one.
ReturnedConnectionsStored ==
    \A t \in Tasks :
        (Done(t, "fetch") /\ returned[t].kind = "Ok") =>
            \A i \in 1..Len(returned[t].val) :
                LET cnn == returned[t].val[i]
                IN  /\ find_by_uuid(edges, cnn.proof.uuid) # {None}
                    /\ \A found \in find_by_uuid(edges, cnn.proof.uuid) :
                          /\ is_some(found)
                          /\ unwrap(found).from = record_id_of(vertices, cnn.from)
                          /\ unwrap(found).to = record_id_of(vertices, cnn.to)


\* C18: both endpoints of every stored edge are stored vertices, and a
\* fetch that has reached connect for an item holds the records of two
\* stored vertices, under any interleaving of concurrent fetches and any
\* abort.
NoDanglingEdge ==
    /\ \A e \in edges : e.from \in VertexIds /\ e.to \in VertexIds
    /\ \A t \in Tasks :
          pc[t] \in {"connect", "link"} =>
              loc[t].from_record \in VertexIds /\ loc[t].to_record \in VertexIds

\* C18 witness: a fetch was dropped between the upsert of the `to` it
\* inserted and connect, and a concurrent fetch inserted an edge.
NoDanglingEdgeReached ==
    \E a \in Tasks, b \in Tasks :
        /\ Done(a, "fetch")
        /\ returned[a].kind = "Cancelled"
        /\ loc[a].to_record # 0
        /\ loc[a].pf = None
        /\ loc[a].inserts = 2
        /\ loc[a].opno = 2
        /\ Done(b, "fetch")
        /\ loc[b].links = 1
        /\ edges # {}

====
